---- MODULE Spec2Model ----
(***************************************************************************)
(* Model of backend/controllers/courseController.js: the five request      *)
(* handlers addCourse, updateCourse, deleteCourse, getAllCourses and       *)
(* searchCourse over the persistent course collection.                     *)
(*                                                                         *)
(* Strings are sequences of one-character strings, so that split, trim     *)
(* and the case-insensitive match are computed and not assumed.  Credit    *)
(* hours are counted in halves (the integer n stands for n/2), so that     *)
(* 1.5 and 2.5 are values of the model.  A handler runs atomically up to   *)
(* each await on the store: the prerequisite lookup and the write are two  *)
(* steps, and other requests may run between them.                         *)
(*                                                                         *)
(* Spec is the service under concurrent addCourse, updateCourse and        *)
(* deleteCourse requests, from the empty collection.  AddSpec is one       *)
(* addCourse request at a time, and SearchSpec searchCourse, each on any   *)
(* collection of up to MaxSeed courses that earlier requests can have      *)
(* left.  The collection does not enforce that codes are unique: the       *)
(* handlers never check it.                                                *)
(***************************************************************************)
EXTENDS Integers, Sequences, FiniteSets, TLC

VARIABLES db, nextId, inflight, res

vars == <<db, nextId, inflight, res>>

-----------------------------------------------------------------------------
(* Bounds *)

\* courses ever created (identities handed out by the store)
MaxCourses == 2

\* requests that may be in flight at once
MaxInflight == 1

Slots == 1..MaxInflight

\* identities a request may name: the assigned ones and one never assigned
Ids == 1..(MaxCourses + 1)

-----------------------------------------------------------------------------
(* JavaScript values of the credit-hour fields *)

\* the number n, counted in halves
Halves(n) == 2 * n

Num(h) == [t |-> "number", v |-> h]
\* a numeric string such as "2.5"
NumStr(h) == [t |-> "numstr", v |-> h]
\* a non-numeric, non-empty string such as "abc"
Text == [t |-> "text", v |-> 0]
Undefined == [t |-> "undefined", v |-> 0]
Null == [t |-> "null", v |-> 0]

NaN == [nan |-> TRUE, v |-> 0]
Number(h) == [nan |-> FALSE, v |-> h]

\* parseFloat(x): a number or a numeric string parses; undefined, null and
\* "abc" give NaN
ParseFloat(x) ==
    IF x.t \in {"number", "numstr"} THEN Number(x.v) ELSE NaN

\* the coercion x < n and x > n apply to x: null is 0, undefined and "abc"
\* are NaN
ToNumber(x) ==
    CASE x.t \in {"number", "numstr"} -> Number(x.v)
      [] x.t = "null" -> Number(0)
      [] OTHER -> NaN

\* a < b and a > b on numbers: false as soon as one side is NaN
Less(a, b) == ~a.nan /\ ~b.nan /\ a.v < b.v
Greater(a, b) == ~a.nan /\ ~b.nan /\ a.v > b.v

\* parseInt(x) of a numeric string: the digits before the decimal point
\* (truncation toward zero)
ParseInt(x) ==
    IF x.t \in {"number", "numstr"}
    THEN IF x.v >= 0 THEN Number(Halves(x.v \div 2))
                     ELSE Number(-Halves((-x.v) \div 2))
    ELSE NaN

\* if (x): undefined, null, 0, NaN and "" are falsy; the string "0" is not
Truthy(x) ==
    CASE x.t = "number" -> x.v # 0
      [] x.t \in {"numstr", "text"} -> TRUE
      [] OTHER -> FALSE

-----------------------------------------------------------------------------
(* Strings *)

\* s.trim(): leading and trailing blanks removed
RECURSIVE Trim(_)
Trim(s) ==
    IF s = <<>> THEN s
    ELSE IF Head(s) = " " THEN Trim(Tail(s))
    ELSE IF s[Len(s)] = " " THEN Trim(SubSeq(s, 1, Len(s) - 1))
    ELSE s

\* s.split(","): the pieces between the commas, empty pieces included
RECURSIVE Split(_)
Split(s) ==
    IF \E i \in 1..Len(s) : s[i] = ","
    THEN LET i == CHOOSE j \in 1..Len(s) :
                      s[j] = "," /\ \A k \in 1..(j - 1) : s[k] # ","
         IN  <<SubSeq(s, 1, i - 1)>> \o Split(SubSeq(s, i + 1, Len(s)))
    ELSE <<s>>

LowerChar(c) ==
    CASE c = "A" -> "a"
      [] c = "B" -> "b"
      [] c = "C" -> "c"
      [] c = "S" -> "s"
      [] OTHER -> c

ToLower(s) == [i \in 1..Len(s) |-> LowerChar(s[i])]

Contains(s, p) ==
    \E i \in 0..(Len(s) - Len(p)) : SubSeq(s, i + 1, i + Len(p)) = p

\* { $regex: p, $options: "i" } for a pattern of plain letters
RegexI(p, s) == Contains(ToLower(s), ToLower(p))

\* if (s) on a string or an absent field: "" and undefined are falsy
Given(s) == s # <<>>

-----------------------------------------------------------------------------
(* The course collection *)

\* identities in the order they were handed out
RECURSIVE Ascend(_)
Ascend(ids) ==
    IF ids = {} THEN <<>>
    ELSE LET m == CHOOSE x \in ids : \A y \in ids : x <= y
         IN  <<m>> \o Ascend(ids \ {m})

\* the documents in the order the store returns them
Docs(d) == Ascend(DOMAIN d)

Range(s) == {s[i] : i \in 1..Len(s)}

\* a lookup that leaves out the filter on the code
FindAllCodes(d, codes) ==
    LET ids == Docs(d)
    IN  [k \in 1..Len(ids) |-> [id |-> ids[k], code |-> d[ids[k]].code]]

\* Course.find({ code: { $in: codes } }).select("_id code")
FindByCodes(d, codes) ==
    LET hit(i) == d[i].code \in Range(codes)
        ids == SelectSeq(Docs(d), hit)
    IN  [k \in 1..Len(ids) |-> [id |-> ids[k], code |-> d[ids[k]].code]]

\* a report that names every requested code once one is missing
MissingCodesAll(codes, found) ==
    IF \A i \in 1..Len(codes) : \E k \in 1..Len(found) : found[k].code = codes[i]
    THEN <<>> ELSE codes

\* prerequisiteCodes.filter(code => !prerequisiteCourses.some(c => c.code === code))
MissingCodes(codes, found) ==
    LET absent(c) == ~\E k \in 1..Len(found) : found[k].code = c
    IN  SelectSeq(codes, absent)

\* prerequisiteCourses.map(course => course._id)
IdsOf(found) == [k \in 1..Len(found) |-> found[k].id]

\* populate("prerequisites", "code name"): each identity replaced by the
\* code of its document; an identity with no document is dropped
Populate(d, prereqs) ==
    LET there(i) == i \in DOMAIN d
        ids == SelectSeq(prereqs, there)
    IN  [k \in 1..Len(ids) |-> d[ids[k]].code]

\* the Number cast of the schema on a written field: strings that are
\* numbers become numbers, null stays null
CastNumber(x) == IF x.t = "numstr" THEN Num(x.v) ELSE x

\* a value the Number cast rejects
CastFails(x) == x.t = "text"

-----------------------------------------------------------------------------
(* Requests and responses *)

\* a request a handler is working on: req.params, req.body, req.query,
\* the place the handler has reached and the prerequisite courses it has
\* looked up
Request(op, pc, courseId, body, query, found) ==
    [op |-> op, pc |-> pc, courseId |-> courseId,
     code |-> body.code, name |-> body.name,
     department |-> body.department, semester |-> body.semester,
     prerequisites |-> body.prerequisites,
     lectureCreditHours |-> body.lectureCreditHours,
     labCreditHours |-> body.labCreditHours,
     query |-> query,
     prerequisiteCourses |-> found]

NoBody ==
    [code |-> <<>>, name |-> <<>>, department |-> <<>>, semester |-> <<>>,
     prerequisites |-> <<>>, lectureCreditHours |-> Undefined,
     labCreditHours |-> Undefined]

NoQuery ==
    [code |-> <<>>, name |-> <<>>, department |-> <<>>, semester |-> <<>>,
     minLectureHours |-> Undefined, maxLectureHours |-> Undefined,
     minLabHours |-> Undefined, maxLabHours |-> Undefined]

Idle == Request("idle", "idle", 0, NoBody, NoQuery, <<>>)

AllIdle == \A s \in Slots : inflight[s] = Idle

\* the response last sent: the handler, the status, the codes named in the
\* message, the identity of the course written or deleted, the courses in
\* the body
Response(op, status, missing, id, courses) ==
    [op |-> op, status |-> status, missing |-> missing, id |-> id,
     courses |-> courses]

NoResponse == Response("none", 0, <<>>, 0, <<>>)

\* request bodies
CodeInputs == {<<"A">>, <<"B">>}
NameInputs == {<<"a">>}
DepartmentInputs == {<<"C", "S">>}
SemesterInputs == {<<"S">>}
\* "", "A" and "A, B"
PrerequisiteInputs == {<<>>, <<"A">>, <<"A", ",", " ", "B">>}
\* "1", "abc", absent
LectureInputs == {NumStr(Halves(1)), Text, Undefined}
\* 0, 1.5, null
LabInputs == {Num(0), Num(3), Null}

Bodies ==
    [code : CodeInputs, name : NameInputs, department : DepartmentInputs,
     semester : SemesterInputs, prerequisites : PrerequisiteInputs,
     lectureCreditHours : LectureInputs, labCreditHours : LabInputs]

\* adds whose save is still to come
PendingAdds == Cardinality({s \in Slots : inflight[s].op = "addCourse"})

\* lines 4-5, 58-60 and 143-145: a request reaches its handler (the
\* invocations are interchangeable: a request takes the first free one)
receive(s, op, courseId, body, query) ==
    /\ inflight[s] = Idle
    /\ \A t \in Slots : t < s => inflight[t] # Idle
    /\ inflight' = [inflight EXCEPT ![s] =
                        Request(op, "received", courseId, body, query, <<>>)]
    /\ UNCHANGED <<db, nextId, res>>

-----------------------------------------------------------------------------
(* addCourse *)

\* lines 16-18: the range check on the parsed hours
AddRangeInvalid(lec, lab) ==
    \/ Less(lec, Number(Halves(1)))
    \/ Greater(lec, Number(Halves(3)))
    \/ Less(lab, Number(Halves(0)))
    \/ Greater(lab, Number(Halves(1)))

\* line 23: prerequisites.split(",").map(prereq => prereq.trim())
TrimmedCodes(prerequisites) ==
    [k \in 1..Len(Split(prerequisites)) |-> Trim(Split(prerequisites)[k])]

\* lines 9-47: validation, the prerequisite lookup, the new document
addCourse(s) ==
    /\ inflight[s].op = "addCourse"
    /\ inflight[s].pc = "received"
    /\ LET q == inflight[s]
           lec == ParseFloat(q.lectureCreditHours)
           lab == ParseFloat(q.labCreditHours)
           codes == IF Given(q.prerequisites)
                    THEN TrimmedCodes(q.prerequisites) ELSE <<>>
           found == IF Given(q.prerequisites)
                    THEN FindByCodes(db, codes) ELSE <<>>
           missing == MissingCodes(codes, found)
       IN  IF lec.nan \/ lab.nan \/ AddRangeInvalid(lec, lab)
           THEN /\ res' = Response("addCourse", 400, <<>>, 0, <<>>)
                /\ inflight' = [inflight EXCEPT ![s] = Idle]
           ELSE IF Len(missing) > 0
           THEN /\ res' = Response("addCourse", 404, missing, 0, <<>>)
                /\ inflight' = [inflight EXCEPT ![s] = Idle]
           ELSE /\ inflight' = [inflight EXCEPT ![s] =
                       [q EXCEPT !.pc = "save",
                                 !.lectureCreditHours = Num(lec.v),
                                 !.labCreditHours = Num(lab.v),
                                 !.prerequisiteCourses = found]]
                /\ UNCHANGED res
    /\ UNCHANGED <<db, nextId>>

\* lines 39-47: the document addCourse builds from the request
NewCourse(q) ==
    [code |-> q.code, name |-> q.name, department |-> q.department,
     semester |-> q.semester,
     lectureCreditHours |-> q.lectureCreditHours,
     labCreditHours |-> q.labCreditHours,
     prerequisites |-> IdsOf(q.prerequisiteCourses)]

\* lines 49-50: newCourse.save() and the 201
addCourseSave(s) ==
    /\ inflight[s].op = "addCourse"
    /\ inflight[s].pc = "save"
    /\ db' = [i \in DOMAIN db \cup {nextId} |->
                 IF i = nextId THEN NewCourse(inflight[s]) ELSE db[i]]
    /\ nextId' = nextId + 1
    /\ res' = Response("addCourse", 201, <<>>, nextId, <<>>)
    /\ inflight' = [inflight EXCEPT ![s] = Idle]

-----------------------------------------------------------------------------
(* updateCourse *)

\* line 64: the range check on the raw request values
UpdateRangeInvalid(lec, lab) ==
    \/ Less(ToNumber(lec), Number(Halves(1)))
    \/ Greater(ToNumber(lec), Number(Halves(3)))
    \/ Less(ToNumber(lab), Number(Halves(0)))
    \/ Greater(ToNumber(lab), Number(Halves(1)))

\* lines 64-82: validation and the prerequisite lookup
updateCourse(s) ==
    /\ inflight[s].op = "updateCourse"
    /\ inflight[s].pc = "received"
    /\ LET q == inflight[s]
           codes == IF Given(q.prerequisites)
                    THEN Split(q.prerequisites) ELSE <<>>
           found == IF Given(q.prerequisites)
                    THEN FindByCodes(db, codes) ELSE <<>>
           missing == MissingCodes(codes, found)
       IN  IF UpdateRangeInvalid(q.lectureCreditHours, q.labCreditHours)
           THEN /\ res' = Response("updateCourse", 400, <<>>, 0, <<>>)
                /\ inflight' = [inflight EXCEPT ![s] = Idle]
           ELSE IF Len(missing) > 0
           THEN /\ res' = Response("updateCourse", 404, missing, 0, <<>>)
                /\ inflight' = [inflight EXCEPT ![s] = Idle]
           ELSE /\ inflight' = [inflight EXCEPT ![s] =
                       [q EXCEPT !.pc = "write",
                                 !.prerequisiteCourses = found]]
                /\ UNCHANGED res
    /\ UNCHANGED <<db, nextId>>

\* the field as written by the update: an undefined value is left out of
\* the update and the stored value stays
Written(old, x) == IF x.t = "undefined" THEN old ELSE CastNumber(x)

\* lines 87-95: the document after the update
UpdatedCourse(old, q) ==
    [code |-> q.code, name |-> q.name, department |-> q.department,
     semester |-> q.semester,
     lectureCreditHours |-> Written(old.lectureCreditHours, q.lectureCreditHours),
     labCreditHours |-> Written(old.labCreditHours, q.labCreditHours),
     prerequisites |-> IdsOf(q.prerequisiteCourses)]

\* an update that inserts the document when there is none
FindByIdAndUpsert(d, id, q) ==
    [i \in DOMAIN d \cup {id} |->
        IF i = id
        THEN UpdatedCourse(IF id \in DOMAIN d THEN d[id] ELSE NewCourse(Idle), q)
        ELSE d[i]]

\* lines 85-97: the store after Course.findByIdAndUpdate(courseId, ..)
FindByIdAndUpdate(d, id, q) ==
    IF id \in DOMAIN d THEN [d EXCEPT ![id] = UpdatedCourse(@, q)] ELSE d

\* lines 85-109: the write and the response
updateCourseWrite(s) ==
    /\ inflight[s].op = "updateCourse"
    /\ inflight[s].pc = "write"
    /\ LET q == inflight[s]
       IN  IF CastFails(q.lectureCreditHours) \/ CastFails(q.labCreditHours)
           THEN /\ res' = Response("updateCourse", 500, <<>>, 0, <<>>)
                /\ UNCHANGED db
           ELSE /\ db' = FindByIdAndUpdate(db, q.courseId, q)
                /\ IF q.courseId \notin DOMAIN db
                   THEN res' = Response("updateCourse", 404, <<>>, 0, <<>>)
                   ELSE res' = Response("updateCourse", 200, <<>>, q.courseId, <<>>)
    /\ inflight' = [inflight EXCEPT ![s] = Idle]
    /\ UNCHANGED nextId

-----------------------------------------------------------------------------
(* deleteCourse *)

\* a delete that also unlinks the course from the courses that require it
FindByIdAndDeleteCascade(d, id) ==
    LET other(i) == i # id
    IN  [i \in DOMAIN d \ {id} |->
            [d[i] EXCEPT !.prerequisites = SelectSeq(@, other)]]

\* line 117: the store after Course.findByIdAndDelete(courseId)
FindByIdAndDelete(d, id) == [i \in DOMAIN d \ {id} |-> d[i]]

\* a handler that does not look at what the store returned
deleteCourseUnchecked(courseId) ==
    /\ db' = FindByIdAndDelete(db, courseId)
    /\ res' = Response("deleteCourse", 200, <<>>, courseId, <<>>)
    /\ UNCHANGED <<nextId, inflight>>

\* lines 114-123: the delete and the response
deleteCourse(courseId) ==
    /\ db' = FindByIdAndDelete(db, courseId)
    /\ IF courseId \in DOMAIN db
       THEN res' = Response("deleteCourse", 200, <<>>, courseId, <<>>)
       ELSE res' = Response("deleteCourse", 404, <<>>, courseId, <<>>)
    /\ UNCHANGED <<nextId, inflight>>

-----------------------------------------------------------------------------
(* getAllCourses *)

\* a course as sent in a response: its identity and fields, the
\* prerequisites populated
Expanded(d, i) ==
    [id |-> i, code |-> d[i].code,
     lectureCreditHours |-> d[i].lectureCreditHours,
     labCreditHours |-> d[i].labCreditHours,
     prerequisites |-> Populate(d, d[i].prerequisites)]

\* line 133: Course.find().populate("prerequisites", "code name")
AllCourses(d) ==
    LET ids == Docs(d)
    IN  [k \in 1..Len(ids) |-> Expanded(d, ids[k])]

\* lines 131-135
getAllCourses ==
    /\ res' = Response("getAllCourses", 200, <<>>, 0, AllCourses(db))
    /\ UNCHANGED <<db, nextId, inflight>>

-----------------------------------------------------------------------------
(* searchCourse *)

\* req.query: every field is a string or absent; the bounds are "1.5",
\* "2.5" and "0"
Queries ==
    [code : {<<>>, <<"a">>}, name : {<<>>, <<"A">>},
     department : {<<>>, <<"c">>}, semester : {<<>>, <<"S">>},
     minLectureHours : {Undefined, NumStr(3)},
     maxLectureHours : {Undefined, NumStr(5)},
     minLabHours : {Undefined},
     maxLabHours : {Undefined, NumStr(0)}]

\* lines 166-176: the bounds of the query on one credit-hour field
HoursQuery(min, max) ==
    [gte |-> IF Truthy(min) THEN ParseInt(min) ELSE NaN,
     hasGte |-> Truthy(min),
     lte |-> IF Truthy(max) THEN ParseInt(max) ELSE NaN,
     hasLte |-> Truthy(max)]

\* { $gte: .., $lte: .. } on a stored field: a number within the bounds
InRange(x, b) ==
    /\ b.hasGte => (x.t = "number" /\ ~b.gte.nan /\ x.v >= b.gte.v)
    /\ b.hasLte => (x.t = "number" /\ ~b.lte.nan /\ x.v <= b.lte.v)

\* lines 148-176: the query built from req.query, applied to one document
Matches(c, q) ==
    /\ Given(q.code) => RegexI(q.code, c.code)
    /\ Given(q.name) => RegexI(q.name, c.name)
    /\ Given(q.department) => RegexI(q.department, c.department)
    /\ Given(q.semester) => c.semester = q.semester
    /\ InRange(c.lectureCreditHours,
               HoursQuery(q.minLectureHours, q.maxLectureHours))
    /\ InRange(c.labCreditHours, HoursQuery(q.minLabHours, q.maxLabHours))

\* line 179: Course.find(query).populate("prerequisites", "code name")
FindCourses(d, q) ==
    LET hit(i) == Matches(d[i], q)
        ids == SelectSeq(Docs(d), hit)
    IN  [k \in 1..Len(ids) |-> Expanded(d, ids[k])]

\* lines 145-185
searchCourse(s) ==
    /\ inflight[s].op = "searchCourse"
    /\ LET courses == FindCourses(db, inflight[s].query)
       IN  IF Len(courses) = 0
           THEN res' = Response("searchCourse", 404, <<>>, 0, <<>>)
           ELSE res' = Response("searchCourse", 200, <<>>, 0, courses)
    /\ inflight' = [inflight EXCEPT ![s] = Idle]
    /\ UNCHANGED <<db, nextId>>

-----------------------------------------------------------------------------
(* The course service under concurrent requests, from the empty collection *)

EmptyStore == [i \in {} |-> Idle]

Init ==
    /\ db = EmptyStore
    /\ nextId = 1
    /\ inflight = [s \in Slots |-> Idle]
    /\ res = NoResponse

\* the store hands out at most MaxCourses identities; getAllCourses and
\* searchCourse write nothing and are left to AddSpec and SearchSpec
Room == (nextId - 1) + PendingAdds < MaxCourses

Next ==
    \/ \E s \in Slots, body \in Bodies :
           Room /\ receive(s, "addCourse", 0, body, NoQuery)
    \/ \E s \in Slots, courseId \in Ids, body \in Bodies :
           receive(s, "updateCourse", courseId, body, NoQuery)
    \/ \E s \in Slots : addCourse(s)
    \/ \E s \in Slots : addCourseSave(s)
    \/ \E s \in Slots : updateCourse(s)
    \/ \E s \in Slots : updateCourseWrite(s)
    \/ \E courseId \in Ids : deleteCourse(courseId)

Spec == Init /\ [][Next]_vars

-----------------------------------------------------------------------------
(* One addCourse request at a time on a collection earlier requests left *)

\* identities the earlier requests were given
MaxSeed == 2

\* ids in increasing order, as FindByCodes returns them
Ascending(p) == \A i \in 1..(Len(p) - 1) : p[i] < p[i + 1]

SeedPrerequisites ==
    {p \in UNION {[1..n -> 1..MaxSeed] : n \in 0..MaxSeed} : Ascending(p)}

\* courses as addCourse and updateCourse write them, some of their
\* prerequisites deleted since
AddSeedCourses ==
    [code : CodeInputs, name : NameInputs, department : DepartmentInputs,
     semester : SemesterInputs, lectureCreditHours : {Num(Halves(1))},
     labCreditHours : {Num(0)}, prerequisites : SeedPrerequisites]

Stores(courses) ==
    UNION {[ids -> courses] : ids \in SUBSET (1..MaxSeed)}

AddInit ==
    /\ db \in Stores(AddSeedCourses)
    /\ nextId = MaxSeed + 1
    /\ inflight = [s \in Slots |-> Idle]
    /\ res = NoResponse

AddNext ==
    \/ \E s \in Slots, body \in Bodies :
           AllIdle /\ nextId = MaxSeed + 1
           /\ receive(s, "addCourse", 0, body, NoQuery)
    \/ \E s \in Slots : addCourse(s)
    \/ \E s \in Slots : addCourseSave(s)
    \/ AllIdle /\ getAllCourses

AddSpec == AddInit /\ [][AddNext]_vars

-----------------------------------------------------------------------------
(* searchCourse on a collection earlier requests left *)

\* courses with the hours 1, 1.5 and 2.5, and 0 and 0.5
SearchSeedCourses ==
    [code : CodeInputs, name : NameInputs, department : DepartmentInputs,
     semester : {<<"S">>, <<"F">>},
     lectureCreditHours : {Num(Halves(1)), Num(3), Num(5)},
     labCreditHours : {Num(0), Num(1)},
     prerequisites : {<<>>}]

SearchInit ==
    /\ db \in Stores(SearchSeedCourses)
    /\ nextId = MaxSeed + 1
    /\ inflight = [s \in Slots |-> Idle]
    /\ res = NoResponse

SearchNext ==
    \/ \E s \in Slots, q \in Queries :
           AllIdle /\ receive(s, "searchCourse", 0, NoBody, q)
    \/ \E s \in Slots : searchCourse(s)

SearchSpec == SearchInit /\ [][SearchNext]_vars

-----------------------------------------------------------------------------
(* Properties *)

Codes(d) == {d[i].code : i \in DOMAIN d}

\* a credit-hour pair that is numeric and within [1,3] and [0,1]
NumericInRange(lec, lab) ==
    /\ lec.t \in {"number", "numstr"}
    /\ lab.t \in {"number", "numstr"}
    /\ lec.v \in Halves(1)..Halves(3)
    /\ lab.v \in Halves(0)..Halves(1)

\* a credit-hour pair with a number outside its range
OutOfRange(lec, lab) ==
    \/ lec.t \in {"number", "numstr"} /\ lec.v \notin Halves(1)..Halves(3)
    \/ lab.t \in {"number", "numstr"} /\ lab.v \notin Halves(0)..Halves(1)

\* the codes the prerequisites string of an addCourse request asks for
RequestedCodes(q) ==
    IF q.prerequisites = <<>> THEN {}
    ELSE {Trim(c) : c \in Range(Split(q.prerequisites))}

\* C1: every stored course has a numeric lectureCreditHours in [1,3] and a
\* numeric labCreditHours in [0,1].
C1_StoredHoursInRange ==
    \A i \in DOMAIN db :
        /\ db[i].lectureCreditHours.t = "number"
        /\ db[i].lectureCreditHours.v \in Halves(1)..Halves(3)
        /\ db[i].labCreditHours.t = "number"
        /\ db[i].labCreditHours.v \in Halves(0)..Halves(1)

\* a credit-hour value that coerces to NaN, or is absent
NonNumeric(x) == x.t \in {"text", "undefined"}

\* C2: an updateCourse request with a non-numeric or absent credit-hour
\* value is answered 400 by the validation and no course changes.
C2_NonNumericUpdateRejected ==
    [][\A s \in Slots :
          (/\ updateCourse(s)
           /\ \/ NonNumeric(inflight[s].lectureCreditHours)
              \/ NonNumeric(inflight[s].labCreditHours))
          => (/\ res' = Response("updateCourse", 400, <<>>, 0, <<>>)
              /\ inflight'[s] = Idle
              /\ db' = db)]_vars

\* C3: when the write of a create or an update is applied, every identity
\* it puts in prerequisites is that of a course in the store.
C3_WrittenPrerequisitesExist ==
    [][\A s \in Slots :
          (addCourseSave(s) \/ (updateCourseWrite(s) /\ res'.status = 200))
          => \A k \in 1..Len(inflight[s].prerequisiteCourses) :
                 inflight[s].prerequisiteCourses[k].id \in DOMAIN db]_vars

\* C4: an addCourse request with valid hours and a prerequisites list of
\* which some trimmed code is the code of no stored course is answered 404,
\* the message names exactly the requested codes no stored course has, and
\* nothing is created.
C4_MissingPrerequisitesNamed ==
    [][\A s \in Slots :
          (/\ addCourse(s)
           /\ NumericInRange(inflight[s].lectureCreditHours,
                             inflight[s].labCreditHours)
           /\ RequestedCodes(inflight[s]) \ Codes(db) # {})
          => (/\ res'.op = "addCourse"
              /\ res'.status = 404
              /\ Range(res'.missing) = RequestedCodes(inflight[s]) \ Codes(db)
              /\ db' = db
              /\ nextId' = nextId
              /\ inflight'[s] = Idle)]_vars

\* a 404 that names "B" while a course "A" is stored
C4_Witness ==
    /\ res.op = "addCourse"
    /\ res.status = 404
    /\ res.missing = <<(<<"B">>)>>
    /\ <<"A">> \in Codes(db)
    /\ AllIdle

\* the codes getAllCourses shows as the prerequisites of course i
ListedPrerequisites(d, i) ==
    UNION {Range(AllCourses(d)[k].prerequisites) :
               k \in {n \in 1..Len(AllCourses(d)) : AllCourses(d)[n].id = i}}

\* C5: an addCourse request with valid hours whose prerequisite codes all
\* exist goes on to the save and is answered 201, and getAllCourses shows
\* as the prerequisites of the created course exactly the requested codes.
C5_CreatedLinksRequested ==
    [][\A s \in Slots :
          /\ (/\ addCourse(s)
              /\ NumericInRange(inflight[s].lectureCreditHours,
                                inflight[s].labCreditHours)
              /\ RequestedCodes(inflight[s]) \subseteq Codes(db))
             => inflight'[s].pc = "save"
          /\ addCourseSave(s)
             => (/\ res'.op = "addCourse"
                 /\ res'.status = 201
                 /\ res'.id \in DOMAIN db' \ DOMAIN db
                 /\ ListedPrerequisites(db', res'.id)
                        = RequestedCodes(inflight[s]))]_vars

\* a created course that links "A" and "B"
C5_Witness ==
    /\ res.op = "addCourse"
    /\ res.status = 201
    /\ res.id \in DOMAIN db
    /\ Len(db[res.id].prerequisites) >= 2
    /\ ListedPrerequisites(db, res.id) = {<<"A">>, <<"B">>}

\* C6 as stated: updateCourse on an identity of no stored course is
\* answered 404 whatever the other fields are, and the store is unchanged.
C6_UnknownIdAlwaysNotFound ==
    [][\A s \in Slots :
          /\ (updateCourse(s) /\ inflight[s].courseId \notin DOMAIN db)
             => (/\ db' = db
                 /\ nextId' = nextId
                 /\ \/ inflight'[s].pc = "write"
                    \/ res'.op = "updateCourse" /\ res'.status = 404)
          /\ (updateCourseWrite(s) /\ inflight[s].courseId \notin DOMAIN db)
             => (/\ db' = db
                 /\ nextId' = nextId
                 /\ res'.op = "updateCourse"
                 /\ res'.status = 404)]_vars

\* C6, amended: updateCourse on an identity of no stored course leaves the
\* store unchanged whatever the other fields are; it is answered 400 when a
\* credit-hour value is out of range and 404 when both are numbers in range.
C6_UnknownIdStoreUnchanged ==
    [][\A s \in Slots :
          /\ (updateCourse(s) /\ inflight[s].courseId \notin DOMAIN db)
             => (/\ db' = db
                 /\ nextId' = nextId
                 /\ OutOfRange(inflight[s].lectureCreditHours,
                               inflight[s].labCreditHours)
                        => (res'.op = "updateCourse" /\ res'.status = 400)
                 /\ NumericInRange(inflight[s].lectureCreditHours,
                                   inflight[s].labCreditHours)
                        => \/ inflight'[s].pc = "write"
                           \/ res'.op = "updateCourse" /\ res'.status = 404)
          /\ (updateCourseWrite(s) /\ inflight[s].courseId \notin DOMAIN db)
             => (/\ db' = db
                 /\ nextId' = nextId
                 /\ NumericInRange(inflight[s].lectureCreditHours,
                                   inflight[s].labCreditHours)
                        => (res'.op = "updateCourse" /\ res'.status = 404))]_vars

\* "Course not found" for an update while courses are stored
C6_Witness ==
    /\ res = Response("updateCourse", 404, <<>>, 0, <<>>)
    /\ DOMAIN db # {}
    /\ AllIdle

\* C7: deleteCourse on a stored identity is answered 200 and removes the
\* course; on an absent one it is answered 404; a delete that follows the
\* successful delete of the same identity is answered 404; an identity once
\* removed stays absent.
C7_DeleteTwice ==
    [][/\ \A courseId \in Ids :
             deleteCourse(courseId)
             => (/\ courseId \in DOMAIN db
                        => (res'.status = 200 /\ courseId \notin DOMAIN db')
                 /\ courseId \notin DOMAIN db
                        => (res'.status = 404 /\ db' = db)
                 /\ res = Response("deleteCourse", 200, <<>>, courseId, <<>>)
                        => res'.status = 404)
       /\ \A i \in Ids :
             (i < nextId /\ i \notin DOMAIN db) => i \notin DOMAIN db']_vars

\* the second delete of a created course, answered 404
C7_Witness ==
    /\ res.op = "deleteCourse"
    /\ res.status = 404
    /\ res.id < nextId
    /\ res.id \notin DOMAIN db

\* hours within the bounds supplied, each taken as the number it is
SatisfiesBounds(x, min, max) ==
    /\ min.t # "undefined" => (x.t = "number" /\ x.v >= min.v)
    /\ max.t # "undefined" => (x.t = "number" /\ x.v <= max.v)

\* the filter as the query parameters state it: substrings without regard
\* to case, the semester as given, the bounds as the numbers supplied
Satisfies(c, q) ==
    /\ Given(q.code) => RegexI(q.code, c.code)
    /\ Given(q.name) => RegexI(q.name, c.name)
    /\ Given(q.department) => RegexI(q.department, c.department)
    /\ Given(q.semester) => c.semester = q.semester
    /\ SatisfiesBounds(c.lectureCreditHours, q.minLectureHours, q.maxLectureHours)
    /\ SatisfiesBounds(c.labCreditHours, q.minLabHours, q.maxLabHours)

\* C8: searchCourse is answered 404 exactly when no stored course satisfies
\* the filter, and otherwise 200 with exactly the courses that satisfy it.
C8_SearchExactOrNotFound ==
    [][\A s \in Slots :
          searchCourse(s)
          => LET sat == {i \in DOMAIN db : Satisfies(db[i], inflight[s].query)}
             IN  /\ res'.status = 404 <=> sat = {}
                 /\ res'.status = 200
                        => (/\ Len(res'.courses) > 0
                            /\ {res'.courses[k].id : k \in 1..Len(res'.courses)}
                                   = sat)]_vars

\* C9: every course searchCourse returns has its hours within the supplied
\* bounds, each bound taken as the number supplied.
C9_BoundsAsSupplied ==
    [][\A s \in Slots :
          searchCourse(s)
          => LET q == inflight[s].query
             IN  \A k \in 1..Len(res'.courses) :
                     /\ SatisfiesBounds(res'.courses[k].lectureCreditHours,
                                        q.minLectureHours, q.maxLectureHours)
                     /\ SatisfiesBounds(res'.courses[k].labCreditHours,
                                        q.minLabHours, q.maxLabHours)]_vars

\* C10: a successful deleteCourse removes the course of that identity and
\* leaves every other course as it was, prerequisites included.
C10_DeleteFrame ==
    [][\A courseId \in Ids :
          (deleteCourse(courseId) /\ courseId \in DOMAIN db)
          => (/\ DOMAIN db' = DOMAIN db \ {courseId}
              /\ \A j \in DOMAIN db' : db'[j] = db[j]
              /\ nextId' = nextId
              /\ inflight' = inflight)]_vars

\* after a successful delete a stored course still refers to the deleted one
C10_Witness ==
    /\ res.op = "deleteCourse"
    /\ res.status = 200
    /\ res.id \notin DOMAIN db
    /\ \E i \in DOMAIN db : res.id \in Range(db[i].prerequisites)

====
